---------------------------- MODULE Spec2Model ----------------------------
(***************************************************************************)
(* Model of the editor's session state registry (state_handler.js) on top  *)
(* of an IndexedDB database, and of the turtle graphics panel controller   *)
(* that redraws an SVG from states[id].moves.                              *)
(*                                                                         *)
(* Spec is the registry: two pages of the editor (registries A and B, each *)
(* with its own states) load from and save to one database, while other    *)
(* handlers of page A edit A's states.  ChainSpec is the registry with one *)
(* load whose callback saves.  PanelSpec is the panel of page A: its four  *)
(* handlers, the user's zooming and panning, and the edits and loads that  *)
(* change states under it.                                                 *)
(*                                                                         *)
(* JavaScript arrays are 0-based, TLA+ sequences 1-based: states[i] of the *)
(* source is states[r][i + 1] here.  An optional JavaScript value          *)
(* (undefined or a value) is a sequence of length 0 or 1.                  *)
(***************************************************************************)
EXTENDS Integers, Sequences, FiniteSets, TLC

VARIABLES
    states,     \* per registry: the module-level list `states`
    heap,       \* per registry: the array objects the list-valued fields point to
    idb,        \* the IndexedDB database named "state" (shared by the registries)
    ops,        \* every loadState/saveState call so far, in call order
    txQueue,    \* the ids of the ops that created a transaction, in creation order
    panel       \* the turtle graphics panel (part_000)

vars == <<states, heap, idb, ops, txQueue, panel>>

\* ---------------------------------------------------------------- bounds

MaxOps == 2         \* loadState/saveState calls in one behaviour
MaxStates == 2      \* length of a registry's states list
MaxMoves == 1       \* length of a moves list

Registries == {"A", "B"}

\* ------------------------------------------------------------ data model

ListFields == {"states", "environments", "moves", "roots"}

FieldIdx(f) ==
    CASE f = "states" -> 1
      [] f = "environments" -> 2
      [] f = "moves" -> 3
      [] f = "roots" -> 4

\* The address of an array object: <<"base", 0, f>> is base_state's list f,
\* and <<"loaded", i, f>> an array that the last load materialised (the arrays
\* of the list that a load replaces are no longer referenced by anything).
BaseAddr(f) == <<"base", 0, f>>

base_state ==
    [states |-> BaseAddr("states"),
     environments |-> BaseAddr("environments"),
     moves |-> BaseAddr("moves"),
     out |-> "",
     index |-> 0,
     expr_i |-> 0,
     start |-> 0,
     end |-> 0,
     roots |-> BaseAddr("roots"),
     globalFrameID |-> -1,
     editor_open |-> FALSE,
     sub_open |-> FALSE,
     env_open |-> FALSE,
     turtle_open |-> FALSE,
     out_open |-> FALSE,
     tests_open |-> FALSE,
     test_results |-> "undefined",
     file_name |-> ""]

\* The array objects base_state's literal creates.
base_heap ==
    [a \in {BaseAddr(f) : f \in ListFields} |->
        IF a = BaseAddr("roots") THEN <<"demo">> ELSE <<>>]

\* The fields whose value can be undefined; the others hold an array, a
\* number, a boolean or a string.
OptionalFields == {"test_results"}

\* Reading property f of an object: undefined when it has no such property.
Get(rec, f) == IF f \in DOMAIN rec THEN rec[f] ELSE "undefined"

\* A copy that takes only the truthy values: 0, "", false are skipped too.
jQuery_extend_truthy(src) ==
    [f \in {g \in DOMAIN src : g \in ListFields \/ g = "globalFrameID"} |-> src[f]]

\* jQuery.extend({}, src): a shallow copy, so the copy's list-valued fields
\* point to the same array objects as src's; a property whose value is
\* undefined is not copied.
jQuery_extend(src) ==
    [f \in {g \in DOMAIN src : ~(g \in OptionalFields /\ src[g] = "undefined")} |->
        src[f]]

temp_file == "<temporary>"

\* What a deep comparison of a states list sees: every list-valued field
\* replaced by the contents of the array it points to.
DeepVal(s, h) ==
    [i \in 1..Len(s) |->
        [f \in DOMAIN s[i] |->
            IF f \in ListFields THEN h[s[i][f]] ELSE s[i][f]]]

\* ------------------------------------------- structured clone (put / get)

Positions(s) == (1..Len(s)) \X ListFields

Before(p, q) == p[1] < q[1] \/ (p[1] = q[1] /\ FieldIdx(p[2]) <= FieldIdx(q[2]))

\* The first position of the list at which the array with address a occurs.
LocalRef(s, a) ==
    CHOOSE p \in Positions(s) :
        /\ s[p[1]][p[2]] = a
        /\ \A q \in Positions(s) : s[q[1]][q[2]] = a => Before(p, q)

\* A clone of the records alone: the arrays they point to are not followed,
\* and every list of the copy is empty.
StructuredClone_records(s, h) ==
    [state |-> [i \in 1..Len(s) |->
                    [f \in DOMAIN s[i] |->
                        IF f \in ListFields THEN LocalRef(s, s[i][f]) ELSE s[i][f]]],
     mem |-> [p \in {LocalRef(s, s[q[1]][q[2]]) : q \in Positions(s)} |-> <<>>]]

\* The structured clone that IDBObjectStore.put stores: a copy of the object
\* graph reachable from the list, which keeps the sharing inside the graph
\* and none of the identities of the original arrays.
StructuredClone(s, h) ==
    [state |-> [i \in 1..Len(s) |->
                    [f \in DOMAIN s[i] |->
                        IF f \in ListFields THEN LocalRef(s, s[i][f]) ELSE s[i][f]]],
     mem |-> [p \in {LocalRef(s, s[q[1]][q[2]]) : q \in Positions(s)} |->
                    h[s[p[1]][p[2]]]]]

\* The list that reading request.result materialises: fresh arrays.
Materialise(blob) ==
    [i \in 1..Len(blob.state) |->
        [f \in DOMAIN blob.state[i] |->
            IF f \in ListFields
            THEN <<"loaded", blob.state[i][f][1], blob.state[i][f][2]>>
            ELSE blob.state[i][f]]]

MaterialiseHeap(blob) ==
    [a \in {<<"loaded", p[1], p[2]>> : p \in DOMAIN blob.mem} |->
        blob.mem[<<a[2], a[3]>>]]

\* What a deep comparison sees of a stored blob.
BlobVal(blob) ==
    [i \in 1..Len(blob.state) |->
        [f \in DOMAIN blob.state[i] |->
            IF f \in ListFields THEN blob.mem[blob.state[i][f]] ELSE blob.state[i][f]]]

\* --------------------------------------------------------------- IndexedDB

NoDatabase == [version |-> 0, stores |-> <<>>]

\* request.onupgradeneeded: the database did not exist; create the object
\* store "state" with key path "id" and its unique index "by_id" on "id".
onupgradeneeded(d) ==
    [version |-> 1,
     stores |-> [n \in (DOMAIN d.stores) \cup {"state"} |->
                    IF n = "state"
                    THEN [keyPath |-> "id",
                          indexes |-> [x \in {"by_id"} |->
                                          [keyPath |-> "id", unique |-> TRUE]],
                          records |-> <<>>]
                    ELSE d.stores[n]]]

\* A put into a store whose keys come from a key generator: every put adds.
Put_generated(d, name, value) ==
    LET st == d.stores[name]
        key == Cardinality(DOMAIN st.records) + 1
    IN  [d EXCEPT !.stores[name].records =
            [k \in (DOMAIN st.records) \cup {key} |->
                IF k = key THEN value ELSE st.records[k]]]

\* A put that behaves as IDBObjectStore.add: a record whose key is in the
\* store stays as it is.
Put_add(d, name, value) ==
    LET st == d.stores[name]
        key == value[st.keyPath]
    IN  [d EXCEPT !.stores[name].records =
            [k \in (DOMAIN st.records) \cup {key} |->
                IF k \in DOMAIN st.records THEN st.records[k] ELSE value]]

\* IDBObjectStore.put(value): the record's key is value[keyPath]; a record
\* with that key is replaced.
Put(d, name, value) ==
    LET st == d.stores[name]
        key == value[st.keyPath]
    IN  [d EXCEPT !.stores[name].records =
            [k \in (DOMAIN st.records) \cup {key} |->
                IF k = key THEN value ELSE st.records[k]]]

\* IDBIndex.get(key): the record whose index key path holds key, if any.
IndexGet(d, name, idx, key) ==
    LET st == d.stores[name]
        hits == {k \in DOMAIN st.records :
                    st.records[k][st.indexes[idx].keyPath] = key}
    IN  IF hits = {} THEN <<>> ELSE <<st.records[CHOOSE k \in hits : TRUE]>>


\* ------------------------------------------------- calls and their state

\* One loadState/saveState call.  phase:
\*   "opening"    indexedDB.open was requested
\*   "pending"    the open succeeded, the transaction and its request exist
\*   "committed"  (save) the transaction is committed; its complete event is due
\*   "done"       the last handler of the call has run
\*   "failed"     the open, the request or the transaction failed; no handler
\*                is registered for any of these
\* The fields atCall, dirty, quiet, upgraded and cbSaw record history for the
\* properties; no action's guard reads them:
\*   atCall    (save) what states held when the call was made
\*   dirty     (save) states changed between the call and its last handler
\*   quiet     every earlier save was finished when the call was made
\*   upgraded  this call's open request created the database
\*   cbSaw     (load) what states held when callback was invoked
\*   parent    the load whose callback made this call, 0 when none did
\* The call is made when the calls so far are os and a deep comparison of
\* the registry's states sees val.
NewOpAt(kind, r, cb, parent, os, val) ==
    [kind |-> kind, reg |-> r, callback |-> cb, phase |-> "opening",
     conn |-> "none", value |-> <<>>, result |-> <<>>, cbCount |-> 0,
     atCall |-> IF kind = "save" THEN <<val>> ELSE <<>>,
     dirty |-> FALSE,
     quiet |-> \A j \in DOMAIN os :
                    os[j].kind = "save" => os[j].phase \in {"done", "failed"},
     upgraded |-> FALSE, cbSaw |-> <<>>, parent |-> parent]

NewOp(kind, r, cb) == NewOpAt(kind, r, cb, 0, ops, DeepVal(states[r], heap[r]))

\* The calls that a callback made: they are not counted against MaxOps.
Chained == {k \in DOMAIN ops : ops[k].parent # 0}

\* The transactions created before op k's.
EarlierTx(k) ==
    {txQueue[i] : i \in {i \in DOMAIN txQueue :
        \E n \in DOMAIN txQueue : txQueue[n] = k /\ i < n}}

\* A transaction is live from its creation until it is committed or
\* aborted.  A readonly one commits when its request's handler has returned
\* without a new request, and no readwrite transaction created after it
\* starts before that: the get and its handler are one step here.
Live(o) == o.phase = "pending"

\* The tasks of one registry run in the order the storage engine queued
\* them: a complete event that is due is delivered before a later one.
EventDue(k) ==
    \A j \in EarlierTx(k) :
        ~(ops[j].reg = ops[k].reg /\ ops[j].kind = "save" /\ ops[j].phase = "committed")

\* Mark the saves of registry r that are in flight as having seen states change.
Touch(os, r) ==
    [j \in DOMAIN os |->
        IF os[j].reg = r /\ os[j].kind = "save" /\ os[j].phase \notin {"done", "failed"}
        THEN [os[j] EXCEPT !.dirty = TRUE]
        ELSE os[j]]

\* callback(): the caller's continuation runs once more, and sees states s.
Invoke(o, s, h) ==
    [o EXCEPT !.cbCount = @ + 1,
              !.cbSaw = IF o.kind = "load" THEN <<DeepVal(s, h)>> ELSE <<>>]

\* ------------------------------------------------------- state_handler.js

\* db(callback): indexedDB.open("state") is requested.
db(kind, r, cb) ==
    /\ Len(ops) - Cardinality(Chained) < MaxOps
    /\ ops' = Append(ops, NewOp(kind, r, cb))
    /\ UNCHANGED <<states, heap, idb, txQueue, panel>>

loadState(r, cb) == db("load", r, cb)

saveState(r, cb) == db("save", r, cb)

\* The open request at the head of the connection queue finds no database:
\* it is created and the upgrade handler runs.
db_onupgradeneeded(k) ==
    /\ ops[k].phase = "opening"
    /\ idb.version = 0
    /\ \A j \in DOMAIN ops : ops[j].phase = "opening" => k <= j
    /\ idb' = onupgradeneeded(idb)
    /\ ops' = [ops EXCEPT ![k].upgraded = TRUE]
    /\ UNCHANGED <<states, heap, txQueue, panel>>

\* store with callback() called right after the put, not in tx.oncomplete.
store_early(o, s, h) ==
    [Invoke(o, s, h) EXCEPT
        !.phase = "pending",
        !.value = <<[id |-> 1, state |-> StructuredClone(s, h)]>>]

\* store with a put of {id: 1, state: []}, a new list and not states.
store_empty(o, s, h) ==
    [o EXCEPT !.phase = "pending",
              !.value = <<[id |-> 1, state |-> StructuredClone(<<>>, h)]>>]

\* store(db, callback): a readwrite transaction and a put of {id: 1, state:
\* states}; put clones its argument when it is called.
store(o, s, h) ==
    [o EXCEPT !.phase = "pending",
              !.value = <<[id |-> 1, state |-> StructuredClone(s, h)]>>]

\* load with callback() called once the get is requested, not in its onsuccess.
load_early(o, s, h) ==
    [Invoke(o, s, h) EXCEPT !.phase = "pending"]

\* load(db, callback): a readonly transaction and a get(1) on index by_id;
\* nothing of the call changes until the request succeeds.
load(o, s, h) ==
    [o EXCEPT !.phase = "pending"]

\* request.onsuccess of db: callback(db), then db.close(), which closes the
\* connection once its transactions are finished.
db_onsuccess(k) ==
    /\ ops[k].phase = "opening"
    /\ idb.version > 0
    /\ \A j \in DOMAIN ops :
            (ops[j].phase = "opening" /\ ops[j].reg = ops[k].reg) => k <= j
    /\ LET r == ops[k].reg
           o == IF ops[k].kind = "save"
                THEN store(ops[k], states[r], heap[r])
                ELSE load(ops[k], states[r], heap[r])
       IN  ops' = [ops EXCEPT ![k] = [o EXCEPT !.conn = "closing"]]
    /\ txQueue' = Append(txQueue, k)
    /\ UNCHANGED <<states, heap, idb, panel>>

\* The open request fails; request.onerror is not set.
OpenError(k) ==
    /\ ops[k].phase = "opening"
    /\ ops' = [ops EXCEPT ![k].phase = "failed"]
    /\ UNCHANGED <<states, heap, idb, txQueue, panel>>

\* The storage engine runs the put and commits the transaction, once every
\* transaction created before it is finished.
TxCommit(k) ==
    /\ ops[k].kind = "save"
    /\ ops[k].phase = "pending"
    /\ \A j \in EarlierTx(k) : ~Live(ops[j])
    /\ idb' = Put(idb, "state", ops[k].value[1])
    /\ ops' = [ops EXCEPT ![k].phase = "committed", ![k].conn = "closed"]
    /\ UNCHANGED <<states, heap, txQueue, panel>>

\* The write transaction aborts; neither tx.onabort nor tx.onerror is set.
TxAbort(k) ==
    /\ ops[k].kind = "save"
    /\ ops[k].phase = "pending"
    /\ ops' = [ops EXCEPT ![k].phase = "failed", ![k].conn = "closed"]
    /\ UNCHANGED <<states, heap, idb, txQueue, panel>>

\* The body of store's tx.oncomplete: callback(), if one was given.
store_handler(o, s, h) ==
    IF o.callback # "undefined" THEN Invoke(o, s, h) ELSE o

\* The complete event of a committed write transaction is delivered.
store_oncomplete(k) ==
    /\ ops[k].kind = "save"
    /\ ops[k].phase = "committed"
    /\ EventDue(k)
    /\ LET r == ops[k].reg
       IN  ops' = [ops EXCEPT ![k] = [store_handler(ops[k], states[r], heap[r])
                                        EXCEPT !.phase = "done"]]
    /\ UNCHANGED <<states, heap, idb, txQueue, panel>>

\* The get request fails; its onerror is not set.
RequestError(k) ==
    /\ ops[k].kind = "load"
    /\ ops[k].phase = "pending"
    /\ ops' = [ops EXCEPT ![k].phase = "failed", ![k].conn = "closed"]
    /\ UNCHANGED <<states, heap, idb, txQueue, panel>>

\* load's handler with the match assigned to a local of its own (let states
\* = matching.state), not to the module's states.
load_handler_local(o, result, s, h) ==
    [states |-> s, heap |-> h, assigned |-> FALSE, op |-> Invoke(o, s, h)]

\* load's handler with callback() inside the branch of a match.
load_handler_cbInIf(o, result, s, h) ==
    LET found == result # <<>>
        s1 == IF found THEN Materialise(result[1].state) ELSE s
        h1 == IF found
              THEN [a \in (DOMAIN base_heap) \cup DOMAIN MaterialiseHeap(result[1].state) |->
                      IF a \in DOMAIN base_heap
                      THEN h[a]
                      ELSE MaterialiseHeap(result[1].state)[a]]
              ELSE h
    IN  [states |-> s1, heap |-> h1, assigned |-> found,
         op |-> IF found THEN Invoke(o, s1, h1) ELSE o]

\* load's handler with callback() before the assignment.
load_handler_cbFirst(o, result, s, h) ==
    LET found == result # <<>>
        s1 == IF found THEN Materialise(result[1].state) ELSE s
        h1 == IF found
              THEN [a \in (DOMAIN base_heap) \cup DOMAIN MaterialiseHeap(result[1].state) |->
                      IF a \in DOMAIN base_heap
                      THEN h[a]
                      ELSE MaterialiseHeap(result[1].state)[a]]
              ELSE h
    IN  [states |-> s1, heap |-> h1, assigned |-> found, op |-> Invoke(o, s, h)]

\* The body of load's request.onsuccess, run by registry r on request.result:
\* if a record matched, states = matching.state; then callback(), which
\* finds states as the assignment left it.
load_handler(o, result, s, h) ==
    LET found == result # <<>>
        s1 == IF found THEN Materialise(result[1].state) ELSE s
        h1 == IF found
              THEN [a \in (DOMAIN base_heap) \cup DOMAIN MaterialiseHeap(result[1].state) |->
                      IF a \in DOMAIN base_heap
                      THEN h[a]
                      ELSE MaterialiseHeap(result[1].state)[a]]
              ELSE h
    IN  [states |-> s1, heap |-> h1, assigned |-> found, op |-> Invoke(o, s1, h1)]

\* The calls that the callback of load k makes when it runs, the calls so
\* far being os: callback "saveState" is function () { saveState(cb); },
\* the chaining of a save to a load, and states is then as the callback
\* finds it; the other callbacks make no call.
Continuation(k, os) ==
    IF os[k].callback = "saveState"
    THEN <<NewOpAt("save", os[k].reg, "cb", k, os, os[k].cbSaw[1])>>
    ELSE <<>>

\* The storage engine runs the get, once every readwrite transaction
\* created before this transaction is finished, and request.onsuccess of
\* load runs.
load_onsuccess(k) ==
    /\ ops[k].kind = "load"
    /\ ops[k].phase = "pending"
    /\ \A j \in EarlierTx(k) : ~(ops[j].kind = "save" /\ Live(ops[j]))
    /\ EventDue(k)
    /\ LET r == ops[k].reg
           result == IndexGet(idb, "state", "by_id", 1)
           m == load_handler(ops[k], result, states[r], heap[r])
           touched == IF m.assigned THEN Touch(ops, r) ELSE ops
           ended == [touched EXCEPT
                        ![k] = [m.op EXCEPT !.result = result,
                                            !.phase = "done", !.conn = "closed"]]
       IN  /\ ops' = ended \o (IF m.op.cbCount > ops[k].cbCount
                                THEN Continuation(k, ended)
                                ELSE <<>>)
           /\ states' = [states EXCEPT ![r] = m.states]
           /\ heap' = [heap EXCEPT ![r] = m.heap]
    /\ UNCHANGED <<idb, txQueue, panel>>

\* ---------------------------------------- the rest of the editor (callers)

\* Another handler opens a session: states.push(jQuery.extend({}, base_state)).
AddSession(r) ==
    /\ Len(states[r]) < MaxStates
    /\ states' = [states EXCEPT ![r] = Append(@, jQuery_extend(base_state))]
    /\ ops' = Touch(ops, r)
    /\ UNCHANGED <<heap, idb, txQueue, panel>>

\* Another handler records a drawing move: states[i].moves.push(m).
PushMove(r, i) ==
    /\ i \in 0..(Len(states[r]) - 1)
    /\ Len(heap[r][states[r][i + 1].moves]) < MaxMoves
    /\ heap' = [heap EXCEPT ![r][states[r][i + 1].moves] = Append(@, "fd")]
    /\ ops' = Touch(ops, r)
    /\ UNCHANGED <<states, idb, txQueue, panel>>

\* ------------------------------------------------ svg-pan-zoom and SVG.js

\* The handler in progress made API call c.
Log(p, c) == [p EXCEPT !.calls = Append(@, c)]

\* A new viewport controller: zoom 1, and the pan its options frame the
\* drawing with ({fit: false, center: false}: none; the defaults: centred).
NewController(opts) ==
    [zoom |-> "1",
     pan |-> IF opts = "custom" THEN "origin" ELSE "centred",
     home |-> IF opts = "custom" THEN "origin" ELSE "centred",
     opts |-> opts]

\* svgPanZoom(rawSVG, options): the controller attached to the element, a
\* new one made from the options (the defaults when none are given) if none is.
svgPanZoom(p, opts) ==
    IF p.ctrl = <<>>
    THEN [Log(p, IF opts = "custom" THEN "attach" ELSE "attach_default")
            EXCEPT !.ctrl = <<NewController(opts)>>]
    ELSE p

\* .reset(): back to the zoom and pan the controller started with.
reset(p) ==
    [Log(p, "reset") EXCEPT
        !.ctrl = <<[p.ctrl[1] EXCEPT !.zoom = "1", !.pan = p.ctrl[1].home]>>]

\* .zoom(z): zoom about the centre of the viewport, which moves the pan
\* when the zoom changes.
zoom(p, z) ==
    [Log(p, "zoom") EXCEPT
        !.ctrl = <<[p.ctrl[1] EXCEPT !.zoom = z,
                                     !.pan = IF z = p.ctrl[1].zoom THEN @ ELSE "recentred"]>>]

\* .pan(point)
pan(p, point) ==
    [Log(p, "pan") EXCEPT !.ctrl = <<[p.ctrl[1] EXCEPT !.pan = point]>>]

\* isNaN(v): v converted to a number is NaN; undefined converts to NaN.
isNaN(v) == v \in {"NaN", "undefined"}

\* draw(moves): paints the moves into the SVG, after what it holds.
draw(p, moves) == [Log(p, "draw") EXCEPT !.drawn = @ \o moves]

\* --------------------------------------------------- the panel (part_000)

\* The component registered for a panel with componentState.id = id: the
\* SVG is empty and has the container's size, no controller is attached.
\* event, tick, calls, fault, wasReady, zoom and pan describe the last
\* handler that ran: its event, the parity of its number, the calls it made,
\* whether it ended in an uncaught TypeError, ready when it began, and its
\* two locals.
register(id) ==
    [id |-> id, ready |-> FALSE, ctrl |-> <<>>, drawn |-> <<>>,
     container |-> "small", size |-> "small",
     event |-> "none", tick |-> FALSE, calls |-> <<>>, fault |-> FALSE,
     wasReady |-> FALSE, zoom |-> "undefined", pan |-> "undefined"]

\* A handler for event e begins: let zoom; let pan;
Begin(p, e) ==
    [p EXCEPT !.event = e, !.tick = ~@, !.calls = <<>>, !.fault = FALSE,
              !.wasReady = p.ready, !.zoom = "undefined", !.pan = "undefined"]

\* zoom = svgPanZoom(rawSVG).getZoom(); pan = svgPanZoom(rawSVG).getPan();
\* svgPanZoom(rawSVG).destroy();
Capture(p) ==
    LET a == svgPanZoom(p, "default")
        b == Log([a EXCEPT !.zoom = a.ctrl[1].zoom], "getZoom")
        c == svgPanZoom(b, "default")
        d == Log([c EXCEPT !.pan = c.ctrl[1].pan], "getPan")
        e == svgPanZoom(d, "default")
    IN  Log([e EXCEPT !.ctrl = <<>>], "destroy")

\* Restore with pan(pan) before zoom(zoom).
Restore_panFirst(p) ==
    IF isNaN(p.zoom)
    THEN reset(svgPanZoom(p, "default"))
    ELSE zoom(svgPanZoom(pan(svgPanZoom(p, "default"), p.pan), "default"), p.zoom)

\* if (isNaN(zoom)) reset, else zoom(zoom) and pan(pan).
Restore(p) ==
    IF isNaN(p.zoom)
    THEN reset(svgPanZoom(p, "default"))
    ELSE pan(svgPanZoom(zoom(svgPanZoom(p, "default"), p.zoom), "default"), p.pan)

\* The handler of "update" without its test of ready.
update_handler_noTest(p, s, h) ==
    LET p0 == Begin(p, "update")
        p1 == Capture(p0)
        p2 == Log([p1 EXCEPT !.drawn = <<>>], "clear")
        p3 == [p2 EXCEPT !.ready = TRUE]
    IN  IF p.id + 1 \notin DOMAIN s
        THEN [p3 EXCEPT !.fault = TRUE]
        ELSE Restore(svgPanZoom(draw(p3, h[s[p.id + 1].moves]), "custom"))

\* The handler of "update" without svg.clear().
update_handler_noClear(p, s, h) ==
    LET p0 == Begin(p, "update")
        p1 == IF p0.ready THEN Capture(p0) ELSE p0
        p3 == [p1 EXCEPT !.ready = TRUE]
    IN  IF p.id + 1 \notin DOMAIN s
        THEN [p3 EXCEPT !.fault = TRUE]
        ELSE Restore(svgPanZoom(draw(p3, h[s[p.id + 1].moves]), "custom"))

\* The handler of "update", with s and h the registry's states and arrays.
\* states[componentState.id].moves throws a TypeError when the list has no
\* such element, which ends the handler.
update_handler(p, s, h) ==
    LET p0 == Begin(p, "update")
        p1 == IF p0.ready THEN Capture(p0) ELSE p0
        p2 == Log([p1 EXCEPT !.drawn = <<>>], "clear")
        p3 == [p2 EXCEPT !.ready = TRUE]
    IN  IF p.id + 1 \notin DOMAIN s
        THEN [p3 EXCEPT !.fault = TRUE]
        ELSE Restore(svgPanZoom(draw(p3, h[s[p.id + 1].moves]), "custom"))

\* The handler of "reset" ending with ready = true, as that of "resize" does.
reset_handler_ready(p) ==
    [reset(svgPanZoom(Begin(p, "reset"), "default")) EXCEPT !.ready = TRUE]

\* The handler of "reset".
reset_handler(p) == reset(svgPanZoom(Begin(p, "reset"), "default"))

\* The handler of "resize", the container having taken size sz.
resize_handler(p, sz) ==
    LET p0 == [Begin(p, "resize") EXCEPT !.container = sz]
        p1 == IF p0.ready THEN Capture(p0) ELSE p0
        p2 == Log([p1 EXCEPT !.size = p1.container], "size")
        p3 == Restore(svgPanZoom(p2, "custom"))
    IN  [p3 EXCEPT !.ready = TRUE]

\* The handler of "shown" clearing the SVG before request_update().
shown_handler_clear(p) ==
    Log(Log([Begin(p, "shown") EXCEPT !.drawn = <<>>], "clear"), "request_update")

\* The handler of "shown": request_update().
shown_handler(p) == Log(Begin(p, "shown"), "request_update")

update ==
    /\ panel' = update_handler(panel, states["A"], heap["A"])
    /\ UNCHANGED <<states, heap, idb, ops, txQueue>>

reset_event ==
    /\ panel' = reset_handler(panel)
    /\ UNCHANGED <<states, heap, idb, ops, txQueue>>

resize(sz) ==
    /\ panel' = resize_handler(panel, sz)
    /\ UNCHANGED <<states, heap, idb, ops, txQueue>>

shown ==
    /\ panel' = shown_handler(panel)
    /\ UNCHANGED <<states, heap, idb, ops, txQueue>>

\* The user zooms or pans the attached controller; its zoom is NaN while
\* the viewport has no extent.
UserZoom(z) ==
    /\ panel.ctrl # <<>>
    /\ panel' = [panel EXCEPT !.ctrl = <<[panel.ctrl[1] EXCEPT !.zoom = z]>>]
    /\ UNCHANGED <<states, heap, idb, ops, txQueue>>

UserPan(point) ==
    /\ panel.ctrl # <<>>
    /\ panel' = [panel EXCEPT !.ctrl = <<[panel.ctrl[1] EXCEPT !.pan = point]>>]
    /\ UNCHANGED <<states, heap, idb, ops, txQueue>>

\* ------------------------------------------------------------ the registry

Init ==
    /\ states = [r \in Registries |-> <<jQuery_extend(base_state)>>]
    /\ heap = [r \in Registries |-> base_heap]
    /\ idb = NoDatabase
    /\ ops = <<>>
    /\ txQueue = <<>>
    /\ panel = register(0)

\* Both pages load and save; page A also saves without a callback, and its
\* sessions are the ones edited.
Next ==
    \/ \E r \in Registries : loadState(r, "cb")
    \/ \E r \in Registries : saveState(r, "cb")
    \/ saveState("A", "undefined")
    \/ \E k \in DOMAIN ops : db_onupgradeneeded(k)
    \/ \E k \in DOMAIN ops : db_onsuccess(k)
    \/ \E k \in DOMAIN ops : OpenError(k)
    \/ \E k \in DOMAIN ops : TxCommit(k)
    \/ \E k \in DOMAIN ops : TxAbort(k)
    \/ \E k \in DOMAIN ops : store_oncomplete(k)
    \/ \E k \in DOMAIN ops : RequestError(k)
    \/ \E k \in DOMAIN ops : load_onsuccess(k)
    \/ \E r \in {"A"}, i \in 0..(MaxStates - 1) : PushMove(r, i)

Spec == Init /\ [][Next]_vars

\* ------------------------------------------------------ a save after a load

\* The pages save, and one load is made whose callback saves (the chaining
\* of a saveState to a loadState); the sessions of page A are edited.
ChainNext ==
    \/ \E r \in Registries : saveState(r, "cb")
    \/ \E r \in Registries :
            /\ \A k \in DOMAIN ops : ops[k].callback # "saveState"
            /\ loadState(r, "saveState")
    \/ \E k \in DOMAIN ops : db_onupgradeneeded(k)
    \/ \E k \in DOMAIN ops : db_onsuccess(k)
    \/ \E k \in DOMAIN ops : OpenError(k)
    \/ \E k \in DOMAIN ops : TxCommit(k)
    \/ \E k \in DOMAIN ops : TxAbort(k)
    \/ \E k \in DOMAIN ops : store_oncomplete(k)
    \/ \E k \in DOMAIN ops : RequestError(k)
    \/ \E k \in DOMAIN ops : load_onsuccess(k)
    \/ \E i \in 0..(MaxStates - 1) : PushMove("A", i)

ChainSpec == Init /\ [][ChainNext]_vars

\* ------------------------------------------------- the panel and its page

\* A loadState of the panel's page runs to its end on a store that holds the
\* one-session list of an earlier visit: the open, the get and load's
\* handler, none of which reads or writes the panel, as one step.
LoadStored ==
    LET stored == [id |-> 1,
                   state |-> StructuredClone(<<jQuery_extend(base_state)>>, base_heap)]
        m == load_handler(NewOp("load", "A", "cb"), <<stored>>, states["A"], heap["A"])
    IN  /\ states' = [states EXCEPT !["A"] = m.states]
        /\ heap' = [heap EXCEPT !["A"] = m.heap]
        /\ UNCHANGED <<idb, ops, txQueue, panel>>

PanelInitial ==
    /\ states = [r \in Registries |-> <<jQuery_extend(base_state)>>]
    /\ heap = [r \in Registries |-> base_heap]
    /\ idb = NoDatabase
    /\ ops = <<>>
    /\ txQueue = <<>>
    /\ \E id \in 0..(MaxStates - 1) : panel = register(id)

\* The panel's component id is any index a states list can have.
PanelNext ==
    \/ update
    \/ reset_event
    \/ \E sz \in {"small", "large"} : resize(sz)
    \/ shown
    \/ \E z \in {"1", "2", "NaN"} : UserZoom(z)
    \/ \E point \in {"origin", "moved"} : UserPan(point)
    \/ AddSession("A")
    \/ \E i \in 0..(MaxStates - 1) : PushMove("A", i)
    \/ LoadStored

PanelSpec == PanelInitial /\ [][PanelNext]_vars

\* ------------------------------------------------------------- properties

\* What a deep comparison sees of a freshly constructed registry's states.
FreshVal == DeepVal(<<jQuery_extend(base_state)>>, base_heap)

\* The records of object store "state".
Records == idb.stores["state"].records

\* The records of the store whose id is 1.
Blobs == {k \in DOMAIN Records : Records[k].id = 1}

\* Op k's last handler runs in this step.
Completes(k, kind) ==
    /\ ops[k].kind = kind
    /\ ops[k].phase # "done"
    /\ ops'[k].phase = "done"

\* callback is invoked in the last handler of the call only, and once.
CallbackOnce(k) ==
    /\ ops'[k].cbCount <= 1
    /\ ops'[k].cbCount # ops[k].cbCount => ops'[k].phase = "done" /\ ops[k].phase # "done"

\* C1: a save of registry A during which states does not change, made and
\* called back while no other save is in flight, followed by a load of a
\* registry B that is called after the save's callback: when the load's
\* callback runs, B's states is deep-equal to A's states at the saveState call.
C1_RoundTrip ==
    [][\A l \in DOMAIN ops : \A s \in DOMAIN ops :
        (/\ Completes(l, "load")
         /\ ops[s].kind = "save" /\ ops[s].phase = "done" /\ ops[s].cbCount = 1
         /\ ~ops[s].dirty
         /\ ops[s].quiet
         /\ s < l /\ ops[l].quiet
         /\ \A x \in DOMAIN ops : (ops[x].kind = "save" /\ x # s) => x < s)
        => /\ DeepVal(states'[ops[l].reg], heap'[ops[l].reg]) = ops[s].atCall[1]
           /\ ops'[l].cbSaw = ops[s].atCall
           /\ ops'[l].cbCount = 1]_vars

\* A load by B, whose states was the fresh list until then, has restored the
\* edited list that A saved.
C1_Witness ==
    \E l \in DOMAIN ops : \E s \in DOMAIN ops :
        /\ ops[l].kind = "load" /\ ops[l].phase = "done" /\ ops[l].reg = "B"
        /\ ops[s].kind = "save" /\ ops[s].phase = "done" /\ ops[s].reg = "A"
        /\ ops[s].cbCount = 1 /\ ~ops[s].dirty /\ ops[s].quiet
        /\ s < l /\ ops[l].quiet
        /\ ops[s].atCall # <<FreshVal>>
        /\ ops[l].cbSaw = ops[s].atCall
        /\ DeepVal(states["B"], heap["B"]) = ops[s].atCall[1]

\* C2: the handler of a load that finds no record with id 1 in the store
\* leaves states (and the arrays) as they were and invokes callback, which
\* is invoked in no other step of the call: exactly once.
C2_LoadEmpty ==
    [][\A l \in DOMAIN ops :
        ops[l].kind = "load" =>
            /\ CallbackOnce(l)
            /\ (Completes(l, "load") /\ Blobs = {}) =>
                    /\ states' = states
                    /\ heap' = heap
                    /\ ops[l].cbCount = 0
                    /\ ops'[l].cbCount = 1]_vars

\* A load whose own open request created the database has called back, with
\* no record found, on a registry whose list had been edited.
C2_Witness ==
    \E l \in DOMAIN ops :
        /\ ops[l].kind = "load" /\ ops[l].phase = "done"
        /\ ops[l].upgraded
        /\ ops[l].result = <<>>
        /\ ops[l].cbCount = 1
        /\ ops[l].cbSaw # <<FreshVal>>

\* C3: the handler of a load that finds the record with id 1 leaves states
\* deep-equal to the stored list, of the stored list's length, whatever states
\* held before; callback finds states already replaced, and is invoked once.
C3_LoadReplaces ==
    [][\A l \in DOMAIN ops :
        ops[l].kind = "load" =>
            /\ CallbackOnce(l)
            /\ (Completes(l, "load") /\ Blobs # {}) =>
                    /\ DeepVal(states'[ops[l].reg], heap'[ops[l].reg])
                            = BlobVal(Records[1].state)
                    /\ Len(states'[ops[l].reg]) = Len(Records[1].state.state)
                    /\ ops'[l].cbSaw = <<BlobVal(Records[1].state)>>
                    /\ ops[l].cbCount = 0
                    /\ ops'[l].cbCount = 1]_vars

\* A load has replaced a list by a stored list that differs from the fresh one.
C3_Witness ==
    \E l \in DOMAIN ops :
        /\ ops[l].kind = "load" /\ ops[l].phase = "done"
        /\ ops[l].result # <<>>
        /\ ops[l].cbCount = 1
        /\ ops[l].cbSaw = <<BlobVal(ops[l].result[1].state)>>
        /\ ops[l].cbSaw # <<FreshVal>>

\* The saves whose transaction was created after op k's and is committed.
LaterCommitted(k) ==
    {j \in DOMAIN ops :
        /\ ops[j].kind = "save"
        /\ ops[j].phase \in {"committed", "done"}
        /\ k \in EarlierTx(j)}

\* C4 as stated: whenever the callback of a save runs, its transaction is
\* committed and the store holds exactly {id: 1, state: S}, S the list this
\* save wrote; the callback runs at most once.
C4_Original ==
    [][\A k \in DOMAIN ops :
        ops[k].kind = "save" =>
            /\ ops'[k].cbCount <= 1
            /\ ops'[k].cbCount # ops[k].cbCount =>
                    /\ ops[k].phase = "committed"
                    /\ Records = [x \in {1} |-> ops[k].value[1]]]_vars

\* C4, amended: whenever the callback of a save runs, its transaction is
\* committed, and the store holds one record, with id 1, whose state is the
\* list this save wrote or the list written by a save whose transaction was
\* created later and has committed since; the callback runs at most once.
C4_SaveCallback ==
    [][\A k \in DOMAIN ops :
        ops[k].kind = "save" =>
            /\ ops'[k].cbCount <= 1
            /\ ops'[k].cbCount # ops[k].cbCount =>
                    /\ ops[k].phase = "committed"
                    /\ \E j \in LaterCommitted(k) \cup {k} :
                            Records = [x \in {1} |-> ops[j].value[1]]]_vars

\* The callback of a save has run while the store held its own list.
C4_Witness ==
    \E k \in DOMAIN ops :
        /\ ops[k].kind = "save" /\ ops[k].phase = "done" /\ ops[k].cbCount = 1
        /\ ops[k].value # <<[id |-> 1, state |-> StructuredClone(<<jQuery_extend(base_state)>>, base_heap)]>>
        /\ Records = [x \in {1} |-> ops[k].value[1]]

\* C5: the store never holds a record other than the one with key 1 and id
\* 1, and the commit of a save leaves exactly the record {id: 1, state: the
\* list the save wrote}, which is the list states held at the saveState call
\* when states did not change since.
C5_OneBlob ==
    [][/\ idb'.version > 0 =>
            \A x \in DOMAIN Records' : x = 1 /\ Records'[x].id = 1
       /\ \A k \in DOMAIN ops :
            (ops[k].kind = "save" /\ ops[k].phase = "pending"
                /\ ops'[k].phase = "committed") =>
                /\ Records' = [x \in {1} |-> [id |-> 1, state |-> ops[k].value[1].state]]
                /\ ~ops[k].dirty => BlobVal(Records'[1].state) = ops[k].atCall[1]]_vars

\* A second save has committed over the differing list of a first one.
C5_Witness ==
    \E j \in DOMAIN ops : \E k \in DOMAIN ops :
        /\ ops[j].kind = "save" /\ ops[j].phase \in {"committed", "done"}
        /\ ops[k].kind = "save" /\ ops[k].phase \in {"committed", "done"}
        /\ j \in EarlierTx(k)
        /\ ops[j].value # ops[k].value
        /\ Cardinality(DOMAIN Records) = 1
        /\ Records[1] = ops[k].value[1]

\* ---------------------------------------------------- panel properties

\* This step is the handler of event e.
Event(e) == panel'.tick # panel.tick /\ panel'.event = e

\* The calls of the last handler, without the controllers that
\* svgPanZoom(rawSVG) made only because none was attached.
Core(calls) == SelectSeq(calls, LAMBDA c : c # "attach_default")

Made(calls) == {calls[i] : i \in DOMAIN calls}

\* The controller svgPanZoom(rawSVG) returns in the state before the step.
Prior == IF panel.ctrl = <<>> THEN NewController("default") ELSE panel.ctrl[1]

\* states[componentState.id] exists.
HasSession == panel.id + 1 \in DOMAIN states["A"]

\* states[componentState.id].moves
Moves == heap["A"][states["A"][panel.id + 1].moves]

\* C6: an "update" or a "resize" of a panel with ready = false makes no call
\* of getZoom, getPan or destroy, makes no controller to read from, leaves
\* its two locals undefined, and leaves an attached controller attached.
C6_NoCapture ==
    [][((Event("update") \/ Event("resize")) /\ ~panel.ready) =>
            /\ Made(panel'.calls) \cap {"getZoom", "getPan", "destroy", "attach_default"} = {}
            /\ panel'.zoom = "undefined"
            /\ panel'.pan = "undefined"
            /\ panel.ctrl # <<>> => panel'.ctrl # <<>>]_vars

\* The first "update" of a panel has drawn moves.
C6_Witness ==
    /\ panel.event = "update"
    /\ ~panel.wasReady
    /\ ~panel.fault
    /\ panel.drawn # <<>>
    /\ panel.calls = <<"clear", "draw", "attach", "reset">>

\* The outcome C7 states: a controller made with the panel's options is
\* attached; it has the zoom and pan that the controller had before the
\* step, or, when that zoom is NaN, the reset framing, with no call of zoom
\* or pan.
Restored ==
    /\ panel'.ctrl # <<>>
    /\ panel'.ctrl[1].opts = "custom"
    /\ panel'.zoom = Prior.zoom
    /\ panel'.pan = Prior.pan
    /\ IF Prior.zoom = "NaN"
       THEN /\ panel'.ctrl[1].zoom = "1"
            /\ panel'.ctrl[1].pan = "origin"
            /\ "reset" \in Made(panel'.calls)
            /\ Made(panel'.calls) \cap {"zoom", "pan"} = {}
       ELSE /\ panel'.ctrl[1].zoom = Prior.zoom
            /\ panel'.ctrl[1].pan = Prior.pan

\* C7 as stated: every "update" and "resize" of a panel with ready = true.
C7_Original ==
    [][((Event("update") \/ Event("resize")) /\ panel.ready) => Restored]_vars

\* C7, amended: every "resize", and every "update" for which
\* states[componentState.id] exists, of a panel with ready = true.
C7_Restore ==
    [][((Event("resize") \/ (Event("update") /\ HasSession)) /\ panel.ready)
            => Restored]_vars

\* An "update" or "resize" of a ready panel has put back a zoom and a pan
\* that the user had set.
C7_Witness ==
    /\ panel.event \in {"update", "resize"}
    /\ panel.wasReady
    /\ ~panel.fault
    /\ panel.zoom = "2"
    /\ panel.pan = "moved"
    /\ panel.ctrl # <<>>
    /\ panel.ctrl[1].zoom = "2"
    /\ panel.ctrl[1].pan = "moved"

\* The first n calls of the last handler, attach_default aside.
FirstCalls(n) ==
    IF Len(Core(panel'.calls)) < n THEN Core(panel'.calls) ELSE SubSeq(Core(panel'.calls), 1, n)

\* What C8 states of an event: capture, destroy, clear, redraw from
\* states[id].moves, attach, in this order.
Redrawn ==
    /\ FirstCalls(6) = <<"getZoom", "getPan", "destroy", "clear", "draw", "attach">>
    /\ panel'.drawn = Moves

C9_Reset ==
    [][Event("reset") =>
            /\ panel'.ctrl # <<>>
            /\ panel'.ctrl[1].zoom = "1"
            /\ panel'.ctrl[1].pan = panel'.ctrl[1].home
            /\ panel'.ctrl[1].opts = Prior.opts
            /\ panel'.ready = panel.ready
            /\ panel'.drawn = panel.drawn
            /\ panel'.size = panel.size
            /\ Made(panel'.calls) \cap {"clear", "draw", "size", "destroy"} = {}
            /\ states' = states /\ heap' = heap]_vars

\* A "reset" has run on a panel that is not ready.
C9_Witness ==
    /\ panel.event = "reset"
    /\ ~panel.ready
    /\ panel.ctrl # <<>>
    /\ panel.calls = <<"attach_default", "reset">>

\* C10: a "shown" calls request_update() and nothing else: the drawing, the
\* SVG's size, the controller and ready are as they were.
C10_Shown ==
    [][Event("shown") =>
            /\ panel'.calls = <<"request_update">>
            /\ panel'.drawn = panel.drawn
            /\ panel'.size = panel.size
            /\ panel'.ctrl = panel.ctrl
            /\ panel'.ready = panel.ready]_vars

\* A "shown" has run on a ready panel that shows moves under a zoomed controller.
C10_Witness ==
    /\ panel.event = "shown"
    /\ panel.ready
    /\ panel.drawn # <<>>
    /\ panel.ctrl # <<>>
    /\ panel.ctrl[1].zoom = "2"

\* ----------------------------------------------- registry properties (2)

\* A load of registry r has assigned states.
Loaded(r) ==
    \E l \in DOMAIN ops :
        /\ ops[l].reg = r /\ ops[l].kind = "load"
        /\ ops[l].phase = "done" /\ ops[l].result # <<>>

Written(k) == ops[k].kind = "save" /\ ops[k].phase \in {"committed", "done"}

\* No save other than a and b has written since the first of the two did.
OnlySince(a, b) ==
    \A c \in DOMAIN ops :
        (Written(c) /\ c # a /\ c # b) => (c \in EarlierTx(a) /\ c \in EarlierTx(b))

\* C12: two saves that overlap (the later call is made before the earlier
\* one's last handler has run) and have both completed, no third save
\* having written since: the store holds the record written by the one whose
\* transaction completed last, which is not the other one's record when the
\* two wrote different lists.
C12_LastWins ==
    \A a \in DOMAIN ops : \A b \in DOMAIN ops :
        (/\ a < b /\ ~ops[b].quiet
         /\ ops[a].phase = "done" /\ ops[b].phase = "done"
         /\ Written(a) /\ Written(b)
         /\ OnlySince(a, b))
        => LET last == IF a \in EarlierTx(b) THEN b ELSE a
               first == IF a \in EarlierTx(b) THEN a ELSE b
           IN  /\ Records = [x \in {1} |-> ops[last].value[1]]
               /\ ops[first].value # ops[last].value
                    => Records[1] # ops[first].value[1]

\* Two overlapping saves that wrote different lists are done; the
\* transaction of the save called first completed last, and its list remains.
C12_Witness ==
    \E a \in DOMAIN ops : \E b \in DOMAIN ops :
        /\ a < b /\ ~ops[b].quiet
        /\ ops[a].phase = "done" /\ ops[b].phase = "done"
        /\ Written(a) /\ Written(b)
        /\ b \in EarlierTx(a)
        /\ ops[a].value # ops[b].value
        /\ Records = [x \in {1} |-> ops[a].value[1]]

\* store runs for save k in this step.
Puts(k) == ops[k].kind = "save" /\ ops[k].phase = "opening" /\ ops'[k].phase = "pending"

C14_Failure ==
    [][\A k \in DOMAIN ops :
        /\ (ops[k].phase # "failed" /\ ops'[k].phase = "failed") =>
                /\ states' = states /\ heap' = heap /\ idb' = idb
                /\ ops[k].cbCount = 0 /\ ops'[k].cbCount = 0
        /\ ops[k].phase = "failed" =>
                /\ ops'[k].phase = "failed"
                /\ ops'[k].cbCount = 0
                /\ ops'[k].value = ops[k].value
                /\ ops'[k].result = ops[k].result]_vars

\* The write transaction of a save and the get of a load have failed, the
\* save's after its put: neither callback has run, and the store holds nothing.
C14_Witness ==
    \E s \in DOMAIN ops : \E l \in DOMAIN ops :
        /\ ops[s].kind = "save" /\ ops[s].phase = "failed" /\ ops[s].value # <<>>
        /\ ops[l].kind = "load" /\ ops[l].phase = "failed" /\ ops[l].conn = "closed"
        /\ ops[s].cbCount = 0 /\ ops[l].cbCount = 0
        /\ idb.version > 0 /\ Blobs = {}

\* Save b is a repetition of save a: it is called by the same registry after
\* a's callback, states holds at b's call what it held at a's, states did not
\* change during either, and the store still holds what a wrote.
Repeats(a, b) ==
    /\ a < b
    /\ ops[a].kind = "save" /\ ops[b].kind = "save"
    /\ ops[a].reg = ops[b].reg
    /\ ops[a].phase = "done" /\ ops[b].quiet
    /\ ~ops[a].dirty /\ ~ops[b].dirty
    /\ ops[a].atCall = ops[b].atCall
    /\ Records = [x \in {1} |-> ops[a].value[1]]

\* C15: no step of a save that repeats an earlier one changes the store or
\* states: the store holds after the second save what it held after the
\* first, and states is what it was.
C15_Idempotent ==
    [][\A a \in DOMAIN ops : \A b \in DOMAIN ops :
        (Repeats(a, b) /\ ops'[b].phase # ops[b].phase) =>
            /\ idb' = idb
            /\ states' = states /\ heap' = heap
            /\ ops'[b].phase \in {"committed", "done"} => ops'[b].value = ops[a].value]_vars

\* A registry has saved an edited list twice, the second time after the
\* first's callback, and both saves are done.
C15_Witness ==
    \E a \in DOMAIN ops : \E b \in DOMAIN ops :
        /\ Repeats(a, b)
        /\ ops[b].phase = "done" /\ ops[b].cbCount = 1
        /\ ops[a].atCall # <<FreshVal>>
        /\ BlobVal(Records[1].state) = ops[a].atCall[1]

\* ------------------------------------------------ panel properties (2)

\* Call c is made before call d in the last handler.
CalledBefore(c, d) ==
    \E i \in DOMAIN panel'.calls : \E j \in DOMAIN panel'.calls :
        i < j /\ panel'.calls[i] = c /\ panel'.calls[j] = d

\* C16: an "update" or a "resize" of a panel with ready = false leaves ready
\* = true only if it has cleared the SVG, then redrawn it, then attached a
\* controller; one that ends in a fault leaves ready = false.
C16_ReadyLast ==
    [][((Event("update") \/ Event("resize")) /\ ~panel.ready) =>
            /\ panel'.ready =>
                    /\ CalledBefore("clear", "draw")
                    /\ CalledBefore("draw", "attach")
                    /\ panel'.ctrl # <<>>
            /\ panel'.fault => ~panel'.ready]_vars

\* Some handler of the panel runs in this step.
AnyEvent == panel'.tick # panel.tick

\* C17: after every event a controller is attached exactly if ready = true,
\* and an event that finds ready = false finds no controller and leaves one
\* attached.
C17_ReadyIffAttached ==
    [][AnyEvent =>
            /\ (panel'.ctrl # <<>>) <=> panel'.ready
            /\ ~panel.ready => (panel.ctrl = <<>> /\ panel'.ctrl # <<>>)]_vars

\* ------------------------------------------------ a save chained to a load

\* C18: a save called from the callback of a load, with states not mutated
\* since: the list its put writes is the list the callback found, which is
\* the list the load installed when the load found a record; the put and the
\* commit of the save then write a record equal to the one the load read,
\* so the store holds after the chain what it held before the load.
C18_Chain ==
    [][\A s \in DOMAIN ops :
        (ops[s].kind = "save" /\ ops[s].parent # 0 /\ ~ops[s].dirty) =>
            LET l == ops[s].parent
            IN  /\ ops[l].kind = "load" /\ ops[l].phase = "done" /\ ops[l].cbCount = 1
                /\ ops[s].atCall = ops[l].cbSaw
                /\ Puts(s) =>
                        /\ BlobVal(ops'[s].value[1].state) = ops[l].cbSaw[1]
                        /\ ops[l].result # <<>> => ops'[s].value[1] = ops[l].result[1]
                /\ (ops[s].phase = "pending" /\ ops'[s].phase = "committed"
                        /\ ops[l].result # <<>>)
                        => Records' = [x \in {1} |-> ops[l].result[1]]]_vars

\* Page B, whose list was the fresh one, has loaded the edited list that
\* page A saved and saved from the load's callback: the store holds what the
\* load read, not B's list of before the load.
C18_Witness ==
    \E s \in DOMAIN ops :
        /\ ops[s].kind = "save" /\ ops[s].parent # 0 /\ ~ops[s].dirty
        /\ ops[s].reg = "B"
        /\ ops[s].phase = "done" /\ ops[s].cbCount = 1
        /\ ops[ops[s].parent].result # <<>>
        /\ Records = [x \in {1} |-> ops[ops[s].parent].result[1]]
        /\ BlobVal(Records[1].state) # FreshVal

\* ------------------------------------------------------- list ownership

\* The contents of list f of session i (0-based) of registry r.
ListOf(r, i, f, h) == h[r][states[r][i + 1][f]]

\* C19: a step that appends in place to a list of one session (states is the
\* same list of the same records, the contents of an array differ) leaves
\* the corresponding list of base_state and every list of every other
\* session as they were.
C19_OwnLists ==
    [][\A r \in Registries : \A i \in 0..(Len(states[r]) - 1) : \A f \in ListFields :
        (states' = states /\ ListOf(r, i, f, heap') # ListOf(r, i, f, heap)) =>
            /\ heap'[r][BaseAddr(f)] = heap[r][BaseAddr(f)]
            /\ \A j \in 0..(Len(states[r]) - 1) : \A g \in ListFields :
                    j # i => ListOf(r, j, g, heap') = ListOf(r, j, g, heap)]_vars

==========================================================================
